---- MODULE Spec2Model ----
(***************************************************************************)
(* Model of My_MQTT_PubSub.ino: an ESP8266 sketch that keeps an MQTT       *)
(* session alive, publishes "Button pressed!" on a rising edge of a        *)
(* debounced pushbutton and drives the built-in LED from inbound messages. *)
(*                                                                         *)
(* The sketch is one control flow: setup() and then loop() forever.  pc    *)
(* is its position, one label per library call or blocking wait.  The      *)
(* network (WiFi association, broker, the TCP connection of the session)   *)
(* changes between any two steps of the sketch.  WiFi, PubSubClient and    *)
(* Bounce2 are libraries outside the sketch; what they answer is modelled  *)
(* from the Session Manager / Transport Link contracts (operators          *)
(* ConnectOk, PublishOk, ClientConnect, ClientPublish, ClientSubscribe,    *)
(* the environment actions).                                               *)
(***************************************************************************)
EXTENDS Naturals, Sequences, FiniteSets

\* ---- bounds of the model ------------------------------------------------
\* longest inbound payload that is enumerated
MaxLen == 2
\* the count of consecutive failed reconnect attempts saturates here
MaxFails == 2
\* the count of "connected" publish attempts saturates here
MaxPubCount == 2
\* the per-tick counts of "Button pressed!" attempts and deliveries saturate here
MaxTries == 3

\* ---- values -------------------------------------------------------------
\* payload bytes: '1', another digit, another character
Bytes == {"1", "0", "x"}

RECURSIVE SeqsUpTo(_)
SeqsUpTo(n) ==
  IF n = 0 THEN {<<>>}
  ELSE LET shorter == SeqsUpTo(n - 1)
       IN  shorter \cup {Append(s, b) : s \in {t \in shorter : Len(t) = n - 1}, b \in Bytes}

Payloads == SeqsUpTo(MaxLen)

NoMsg == [got |-> FALSE, payload |-> <<>>]

Edges == {"None", "Rising", "Falling"}

\* labels inside reconnect()
RcPcs == {"rc_while", "rc_connect", "rc_publish", "rc_subscribe", "rc_delay"}
\* labels inside button()
BtnPcs == {"button", "btn_pub1", "btn_connect", "btn_delay", "btn_pub2"}

Min(a, b) == IF a < b THEN a ELSE b

VARIABLES
  pc,            \* position of the single control flow
  link,          \* WiFi.status(): "Disconnected", "Connecting", "Connected"
  broker,        \* the broker is reachable and accepts the handshake
  session,       \* client.connected(): "Active" or "Disconnected"
  subscribed,    \* the current broker session holds the inTopic subscription
  callbackSet,   \* client.setCallback(callback) has been called
  led,           \* level of the LED pin: "LOW" is on (active), "HIGH" is off
  edge,          \* edge taken by button() in this tick
  pub1,          \* "Button pressed!" first attempt of this tick: none/ok/inactive/lost
  pub2,          \* the retry of this tick: none/ok/inactive/lost
  bpTries,       \* publish attempts of "Button pressed!" in this tick (saturating)
  bpSent,        \* deliveries of "Button pressed!" in this tick (saturating)
  connectedPubs, \* publish attempts of "connected" so far (saturating)
  initConn,      \* outcome of setup_mqtt's connect: pending/ok/fail
  estBy,         \* who established the last session: none/initial/reconnect/inline
  annc,          \* announcement attempted since that establishment
  dropInTick,    \* the session went from Active to Disconnected during this tick
  prevDrop,      \* ... during the previous tick
  out,           \* message the last step of the sketch delivered to the broker
  rx,            \* inbound message the last poll handed to callback
  oob,           \* that callback read payload[i] with i >= length
  fails,         \* failed connect attempts of the running reconnect() (saturating)
  pressed,       \* debounced level of the pushbutton
  lastTry,       \* last connect attempt of the running reconnect(): none/ok/fail/nolink
  waited         \* the delay(5000) has elapsed since that attempt

vars == <<pc, link, broker, session, subscribed, callbackSet, led, edge, pub1, pub2,
          bpTries, bpSent, connectedPubs, initConn, estBy, annc, dropInTick, prevDrop, out, rx, oob, fails, pressed,
          lastTry, waited>>

netVars  == <<link, broker>>
cbVars   == <<rx, oob>>
\* untouched outside reconnect()
rcVars   == <<fails, lastTry, waited>>
\* untouched outside button()
btnVars  == <<edge, pub1, pub2, bpTries, bpSent, pressed>>

wifi == link = "Connected"

Init ==
  /\ pc = "setup"
  /\ link = "Disconnected"
  /\ broker \in BOOLEAN
  /\ session = "Disconnected"
  /\ subscribed = FALSE
  /\ callbackSet = FALSE
  /\ led = "HIGH"
  /\ edge = "None"
  /\ pub1 = "none"
  /\ pub2 = "none"
  /\ bpTries = 0
  /\ bpSent = 0
  /\ connectedPubs = 0
  /\ initConn = "pending"
  /\ estBy = "none"
  /\ annc = "none"
  /\ dropInTick = FALSE
  /\ prevDrop = FALSE
  /\ out = "none"
  /\ rx = NoMsg
  /\ oob = FALSE
  /\ fails = 0
  /\ pressed \in BOOLEAN
  /\ lastTry = "none"
  /\ waited = FALSE

\* ---- the libraries ------------------------------------------------------
\* variant: a handshake that does not need the link
ConnectOk_NoLink == broker

\* a handshake succeeds when the link is up and the broker answers
ConnectOk == wifi /\ broker

\* variant: a publish that does not look at the session state
PublishOk_NoSessionCheck == wifi /\ broker

\* a publish, subscribe or poll gets through on an Active session whose link
\* and broker are still there
PublishOk == session = "Active" /\ wifi /\ broker

\* "Active -> Disconnected on any detected link loss (observed during publish
\* or poll)"
SessionAfterIO == IF session = "Active" /\ ~(wifi /\ broker) THEN "Disconnected" ELSE session

PublishResult == IF PublishOk THEN "ok" ELSE IF session = "Active" THEN "lost" ELSE "inactive"

\* client.publish(mqtt_out_topic, msg)
ClientPublish(msg) ==
  /\ out' = IF PublishOk THEN msg ELSE "none"
  /\ session' = SessionAfterIO
  /\ dropInTick' = (dropInTick \/ session' # session)
  /\ connectedPubs' = IF msg = "connected" THEN Min(connectedPubs + 1, MaxPubCount)
                      ELSE connectedPubs
  /\ annc' = IF msg \in {"connected", "reconnected"} THEN msg ELSE annc
  /\ bpTries' = IF msg = "Button pressed!" THEN Min(bpTries + 1, MaxTries) ELSE bpTries
  /\ bpSent' = IF msg = "Button pressed!" /\ PublishOk THEN Min(bpSent + 1, MaxTries)
                ELSE bpSent

\* client.connect(...): a no-op returning true on a connected client; otherwise
\* a fresh (clean) broker session or a failure
ClientConnect(who) ==
  /\ session' = IF session = "Active" \/ ConnectOk THEN "Active" ELSE "Disconnected"
  /\ subscribed' = IF session = "Active" THEN subscribed ELSE FALSE
  /\ estBy' = IF session # "Active" /\ ConnectOk THEN who ELSE estBy
  /\ annc' = IF session # "Active" /\ ConnectOk THEN "none" ELSE annc

\* client.subscribe(mqtt_in_topic)
ClientSubscribe ==
  /\ subscribed' = (subscribed \/ PublishOk)
  /\ session' = SessionAfterIO
  /\ dropInTick' = (dropInTick \/ session' # session)

\* ---- the network --------------------------------------------------------
LinkUp ==
  /\ link = "Connecting"
  /\ link' = "Connected"
  /\ UNCHANGED <<pc, broker, session, subscribed, callbackSet, led, btnVars, connectedPubs,
                 initConn, estBy, annc, dropInTick, prevDrop, out, cbVars, rcVars>>

LinkDown ==
  /\ link = "Connected"
  /\ link' = "Connecting"
  /\ UNCHANGED <<pc, broker, session, subscribed, callbackSet, led, btnVars, connectedPubs,
                 initConn, estBy, annc, dropInTick, prevDrop, out, cbVars, rcVars>>

BrokerUp ==
  /\ ~broker
  /\ broker' = TRUE
  /\ UNCHANGED <<pc, link, session, subscribed, callbackSet, led, btnVars, connectedPubs,
                 initConn, estBy, annc, dropInTick, prevDrop, out, cbVars, rcVars>>

BrokerDown ==
  /\ broker
  /\ broker' = FALSE
  /\ UNCHANGED <<pc, link, session, subscribed, callbackSet, led, btnVars, connectedPubs,
                 initConn, estBy, annc, dropInTick, prevDrop, out, cbVars, rcVars>>

\* the TCP stack notices that the connection of the session is gone
SessionLost ==
  /\ session = "Active"
  /\ ~(wifi /\ broker)
  /\ session' = "Disconnected"
  /\ dropInTick' = TRUE
  /\ UNCHANGED <<pc, netVars, subscribed, callbackSet, led, btnVars, connectedPubs,
                 initConn, estBy, annc, prevDrop, out, cbVars, rcVars>>

Env == LinkUp \/ LinkDown \/ BrokerUp \/ BrokerDown \/ SessionLost

\* ---- setup() ------------------------------------------------------------
SetupPins ==
  /\ pc = "setup"
  /\ led' = "HIGH"
  /\ pc' = "wifi_begin"
  /\ out' = "none"
  /\ UNCHANGED <<netVars, session, subscribed, callbackSet, btnVars, connectedPubs,
                 initConn, estBy, annc, dropInTick, prevDrop, cbVars, rcVars>>

WifiBegin ==
  /\ pc = "wifi_begin"
  /\ link' = IF link = "Disconnected" THEN "Connecting" ELSE link
  /\ pc' = "wifi_wait"
  /\ out' = "none"
  /\ UNCHANGED <<broker, session, subscribed, callbackSet, led, btnVars, connectedPubs,
                 initConn, estBy, annc, dropInTick, prevDrop, cbVars, rcVars>>

WifiWait ==
  /\ pc = "wifi_wait"
  /\ pc' = IF wifi THEN "mqtt_connect" ELSE "wifi_delay"
  /\ out' = "none"
  /\ UNCHANGED <<netVars, session, subscribed, callbackSet, led, btnVars, connectedPubs,
                 initConn, estBy, annc, dropInTick, prevDrop, cbVars, rcVars>>

WifiDelay ==
  /\ pc = "wifi_delay"
  /\ pc' = "wifi_wait"
  /\ out' = "none"
  /\ UNCHANGED <<netVars, session, subscribed, callbackSet, led, btnVars, connectedPubs,
                 initConn, estBy, annc, dropInTick, prevDrop, cbVars, rcVars>>

\* variant: setup_mqtt() goes on without testing the result of client.connect
SetupMqttConnect_ResultIgnored ==
  /\ pc = "mqtt_connect"
  /\ ClientConnect("initial")
  /\ initConn' = IF session' = "Active" THEN "ok" ELSE "fail"
  /\ pc' = "mqtt_setcb"
  /\ out' = "none"
  /\ UNCHANGED <<netVars, callbackSet, led, btnVars, connectedPubs,
                 dropInTick, prevDrop, cbVars, rcVars>>

\* if (client.connect(mqtt_clientID, mqtt_username, mqtt_password)) ... else ...
SetupMqttConnect ==
  /\ pc = "mqtt_connect"
  /\ ClientConnect("initial")
  /\ initConn' = IF session' = "Active" THEN "ok" ELSE "fail"
  /\ pc' = IF session' = "Active" THEN "mqtt_setcb" ELSE "loop_check"
  /\ out' = "none"
  /\ UNCHANGED <<netVars, callbackSet, led, btnVars, connectedPubs,
                 dropInTick, prevDrop, cbVars, rcVars>>

SetupMqttSetCallback ==
  /\ pc = "mqtt_setcb"
  /\ callbackSet' = TRUE
  /\ pc' = "mqtt_publish"
  /\ out' = "none"
  /\ UNCHANGED <<netVars, session, subscribed, led, btnVars, connectedPubs,
                 initConn, estBy, annc, dropInTick, prevDrop, cbVars, rcVars>>

SetupMqttPublish ==
  /\ pc = "mqtt_publish"
  /\ ClientPublish("connected")
  /\ pc' = "mqtt_subscribe"
  /\ UNCHANGED <<netVars, subscribed, callbackSet, led, edge, pub1, pub2, pressed,
                 initConn, estBy, prevDrop, cbVars, rcVars>>

SetupMqttSubscribe ==
  /\ pc = "mqtt_subscribe"
  /\ ClientSubscribe
  /\ out' = "none"
  /\ pc' = "loop_check"
  /\ UNCHANGED <<netVars, callbackSet, led, btnVars, connectedPubs,
                 initConn, estBy, annc, prevDrop, cbVars, rcVars>>

\* ---- loop(): step 1 and reconnect() -------------------------------------
\* variant: loop() goes on to button() without calling reconnect()
LoopCheck_NoReconnect ==
  /\ pc = "loop_check"
  /\ pc' = "button"
  /\ edge' = "None"
  /\ pub1' = "none"
  /\ pub2' = "none"
  /\ bpTries' = 0
  /\ bpSent' = 0
  /\ prevDrop' = dropInTick
  /\ dropInTick' = FALSE
  /\ rx' = NoMsg
  /\ oob' = FALSE
  /\ fails' = 0
  /\ lastTry' = "none"
  /\ waited' = FALSE
  /\ out' = "none"
  /\ UNCHANGED <<netVars, session, subscribed, callbackSet, led, connectedPubs,
                 initConn, estBy, annc, pressed>>

\* if (!client.connected()) reconnect();   a new tick starts here
LoopCheck ==
  /\ pc = "loop_check"
  /\ pc' = IF session = "Active" THEN "button" ELSE "rc_while"
  /\ edge' = "None"
  /\ pub1' = "none"
  /\ pub2' = "none"
  /\ bpTries' = 0
  /\ bpSent' = 0
  /\ prevDrop' = dropInTick
  /\ dropInTick' = FALSE
  /\ rx' = NoMsg
  /\ oob' = FALSE
  /\ fails' = 0
  /\ lastTry' = "none"
  /\ waited' = FALSE
  /\ out' = "none"
  /\ UNCHANGED <<netVars, session, subscribed, callbackSet, led, connectedPubs,
                 initConn, estBy, annc, pressed>>

\* while (!client.connected())
ReconnectWhile ==
  /\ pc = "rc_while"
  /\ pc' = IF session # "Active" THEN "rc_connect" ELSE "button"
  /\ out' = "none"
  /\ UNCHANGED <<netVars, session, subscribed, callbackSet, led, btnVars, connectedPubs,
                 initConn, estBy, annc, dropInTick, prevDrop, cbVars, rcVars>>

\* variant: the result of client.connect is not tested
ReconnectConnect_IgnoresResult ==
  /\ pc = "rc_connect"
  /\ ClientConnect("reconnect")
  /\ pc' = "rc_publish"
  /\ fails' = IF session' = "Active" THEN fails ELSE Min(fails + 1, MaxFails)
  /\ lastTry' = IF session' = "Active" THEN "ok" ELSE IF wifi THEN "fail" ELSE "nolink"
  /\ waited' = FALSE
  /\ out' = "none"
  /\ UNCHANGED <<netVars, callbackSet, led, btnVars, connectedPubs,
                 initConn, dropInTick, prevDrop, cbVars>>

\* variant: a failed attempt is retried without the delay
ReconnectConnect_NoBackoff ==
  /\ pc = "rc_connect"
  /\ ClientConnect("reconnect")
  /\ pc' = IF session' = "Active" THEN "rc_publish" ELSE "rc_while"
  /\ fails' = IF session' = "Active" THEN fails ELSE Min(fails + 1, MaxFails)
  /\ lastTry' = IF session' = "Active" THEN "ok" ELSE IF wifi THEN "fail" ELSE "nolink"
  /\ waited' = FALSE
  /\ out' = "none"
  /\ UNCHANGED <<netVars, callbackSet, led, btnVars, connectedPubs,
                 initConn, dropInTick, prevDrop, cbVars>>

\* if (client.connect(mqtt_clientID))
ReconnectConnect ==
  /\ pc = "rc_connect"
  /\ ClientConnect("reconnect")
  /\ pc' = IF session' = "Active" THEN "rc_publish" ELSE "rc_delay"
  /\ fails' = IF session' = "Active" THEN fails ELSE Min(fails + 1, MaxFails)
  /\ lastTry' = IF session' = "Active" THEN "ok" ELSE IF wifi THEN "fail" ELSE "nolink"
  /\ waited' = FALSE
  /\ out' = "none"
  /\ UNCHANGED <<netVars, callbackSet, led, btnVars, connectedPubs,
                 initConn, dropInTick, prevDrop, cbVars>>

\* variant: reconnect() announces with the text of setup_mqtt()
ReconnectPublish_Connected ==
  /\ pc = "rc_publish"
  /\ ClientPublish("connected")
  /\ pc' = "rc_subscribe"
  /\ UNCHANGED <<netVars, subscribed, callbackSet, led, edge, pub1, pub2, pressed,
                 initConn, estBy, prevDrop, cbVars, rcVars>>

\* client.publish(mqtt_out_topic, "reconnected")
ReconnectPublish ==
  /\ pc = "rc_publish"
  /\ ClientPublish("reconnected")
  /\ pc' = "rc_subscribe"
  /\ UNCHANGED <<netVars, subscribed, callbackSet, led, edge, pub1, pub2, pressed,
                 initConn, estBy, prevDrop, cbVars, rcVars>>

\* client.subscribe(mqtt_in_topic)
ReconnectSubscribe ==
  /\ pc = "rc_subscribe"
  /\ ClientSubscribe
  /\ out' = "none"
  /\ pc' = "rc_while"
  /\ UNCHANGED <<netVars, callbackSet, led, btnVars, connectedPubs,
                 initConn, estBy, annc, prevDrop, cbVars, rcVars>>

\* variant: reconnect() returns to loop() after a failed attempt
ReconnectDelay_Return ==
  /\ pc = "rc_delay"
  /\ pc' = "button"
  /\ waited' = TRUE
  /\ out' = "none"
  /\ UNCHANGED <<netVars, session, subscribed, callbackSet, led, btnVars, connectedPubs,
                 initConn, estBy, annc, dropInTick, prevDrop, cbVars, fails, lastTry>>

\* variant: reconnect() stops for good after a failed attempt
ReconnectDelay_Halt ==
  /\ pc = "rc_delay"
  /\ pc' = "halted"
  /\ waited' = TRUE
  /\ out' = "none"
  /\ UNCHANGED <<netVars, session, subscribed, callbackSet, led, btnVars, connectedPubs,
                 initConn, estBy, annc, dropInTick, prevDrop, cbVars, fails, lastTry>>

\* delay(5000)
ReconnectDelay ==
  /\ pc = "rc_delay"
  /\ pc' = "rc_while"
  /\ waited' = TRUE
  /\ out' = "none"
  /\ UNCHANGED <<netVars, session, subscribed, callbackSet, led, btnVars, connectedPubs,
                 initConn, estBy, annc, dropInTick, prevDrop, cbVars, fails, lastTry>>

\* ---- loop(): step 2, button() -------------------------------------------
\* the edges the debouncer can report at the level the button is at
EdgesAt(level) == IF level THEN {"None", "Falling"} ELSE {"None", "Rising"}

\* variant: a tick without a rising edge ends without client.loop()
Button_SkipsPoll ==
  /\ pc = "button"
  /\ \E e \in EdgesAt(pressed) :
       /\ edge' = e
       /\ pressed' = IF e = "Rising" THEN TRUE ELSE IF e = "Falling" THEN FALSE ELSE pressed
       /\ led' = IF e = "Rising" THEN "LOW" ELSE IF e = "Falling" THEN "HIGH" ELSE led
       /\ pc' = IF e = "Rising" THEN "btn_pub1" ELSE "loop_check"
  /\ out' = "none"
  /\ UNCHANGED <<netVars, session, subscribed, callbackSet, pub1, pub2, bpTries, bpSent,
                 connectedPubs,
                 initConn, estBy, annc, dropInTick, prevDrop, cbVars, rcVars>>

\* variant: a plain else in place of else if (bouncer.fell())
Button_ElseOff ==
  /\ pc = "button"
  /\ \E e \in EdgesAt(pressed) :
       /\ edge' = e
       /\ pressed' = IF e = "Rising" THEN TRUE ELSE IF e = "Falling" THEN FALSE ELSE pressed
       /\ led' = IF e = "Rising" THEN "LOW" ELSE "HIGH"
       /\ pc' = IF e = "Rising" THEN "btn_pub1" ELSE "poll"
  /\ out' = "none"
  /\ UNCHANGED <<netVars, session, subscribed, callbackSet, pub1, pub2, bpTries, bpSent,
                 connectedPubs,
                 initConn, estBy, annc, dropInTick, prevDrop, cbVars, rcVars>>

\* bouncer.update(); rose() -> LED on, then publish; fell() -> LED off
Button ==
  /\ pc = "button"
  /\ \E e \in EdgesAt(pressed) :
       /\ edge' = e
       /\ pressed' = IF e = "Rising" THEN TRUE ELSE IF e = "Falling" THEN FALSE ELSE pressed
       /\ led' = IF e = "Rising" THEN "LOW" ELSE IF e = "Falling" THEN "HIGH" ELSE led
       /\ pc' = IF e = "Rising" THEN "btn_pub1" ELSE "poll"
  /\ out' = "none"
  /\ UNCHANGED <<netVars, session, subscribed, callbackSet, pub1, pub2, bpTries, bpSent,
                 connectedPubs,
                 initConn, estBy, annc, dropInTick, prevDrop, cbVars, rcVars>>

\* variant: the else branch of the publish is missing, a failure is not retried
ButtonPublish1_NoRetry ==
  /\ pc = "btn_pub1"
  /\ ClientPublish("Button pressed!")
  /\ pub1' = PublishResult
  /\ pc' = "poll"
  /\ UNCHANGED <<netVars, subscribed, callbackSet, led, edge, pub2, pressed,
                 initConn, estBy, prevDrop, cbVars, rcVars>>

\* if (client.publish(mqtt_out_topic, "Button pressed!")) ... else ...
ButtonPublish1 ==
  /\ pc = "btn_pub1"
  /\ ClientPublish("Button pressed!")
  /\ pub1' = PublishResult
  /\ pc' = IF PublishOk THEN "poll" ELSE "btn_connect"
  /\ UNCHANGED <<netVars, subscribed, callbackSet, led, edge, pub2, pressed,
                 initConn, estBy, prevDrop, cbVars, rcVars>>

\* client.connect(mqtt_clientID, mqtt_username, mqtt_password); result unused
ButtonConnect ==
  /\ pc = "btn_connect"
  /\ ClientConnect("inline")
  /\ pc' = "btn_delay"
  /\ out' = "none"
  /\ UNCHANGED <<netVars, callbackSet, led, btnVars, connectedPubs,
                 initConn, dropInTick, prevDrop, cbVars, rcVars>>

\* delay(10)
ButtonDelay ==
  /\ pc = "btn_delay"
  /\ pc' = "btn_pub2"
  /\ out' = "none"
  /\ UNCHANGED <<netVars, session, subscribed, callbackSet, led, btnVars, connectedPubs,
                 initConn, estBy, annc, dropInTick, prevDrop, cbVars, rcVars>>

\* variant: the inline recovery is repeated until the publish gets through
ButtonPublish2_RetryUntilSent ==
  /\ pc = "btn_pub2"
  /\ ClientPublish("Button pressed!")
  /\ pub2' = PublishResult
  /\ pc' = IF PublishOk THEN "poll" ELSE "btn_connect"
  /\ UNCHANGED <<netVars, subscribed, callbackSet, led, edge, pub1, pressed,
                 initConn, estBy, prevDrop, cbVars, rcVars>>

\* client.publish(mqtt_out_topic, "Button pressed!"); result unused
ButtonPublish2 ==
  /\ pc = "btn_pub2"
  /\ ClientPublish("Button pressed!")
  /\ pub2' = PublishResult
  /\ pc' = "poll"
  /\ UNCHANGED <<netVars, subscribed, callbackSet, led, edge, pub1, pressed,
                 initConn, estBy, prevDrop, cbVars, rcVars>>

\* ---- loop(): step 3, client.loop() and callback() -----------------------
\* the byte (char)payload[0] evaluates to: the first payload byte, or, for a
\* zero-length payload, whatever byte follows the topic in the receive buffer
FirstByteRead(payload, stale) == IF Len(payload) >= 1 THEN payload[1] ELSE stale

\* variant: the test is payload[0] != '0'
CallbackLevel_NotZero(first) == IF first # "0" THEN "LOW" ELSE "HIGH"

\* if ((char)payload[0] == '1') digitalWrite(LOW) else digitalWrite(HIGH)
CallbackLevel(first) == IF first = "1" THEN "LOW" ELSE "HIGH"

\* client.loop(): on an Active session with a subscription, at most one
\* inbound message is read and handed to the registered callback
Poll ==
  /\ pc = "poll"
  /\ \/ /\ rx' = NoMsg
        /\ oob' = FALSE
        /\ led' = led
     \/ /\ PublishOk
        /\ subscribed
        /\ callbackSet
        /\ \E p \in Payloads, stale \in Bytes :
             /\ rx' = [got |-> TRUE, payload |-> p]
             /\ oob' = (Len(p) = 0)
             /\ led' = CallbackLevel(FirstByteRead(p, stale))
  /\ session' = SessionAfterIO
  /\ dropInTick' = (dropInTick \/ session' # session)
  /\ pc' = "loop_check"
  /\ out' = "none"
  /\ UNCHANGED <<netVars, subscribed, callbackSet, btnVars, connectedPubs,
                 initConn, estBy, annc, prevDrop, rcVars>>

\* ---- the specification --------------------------------------------------
Sketch ==
  \/ SetupPins \/ WifiBegin \/ WifiWait \/ WifiDelay
  \/ SetupMqttConnect \/ SetupMqttSetCallback \/ SetupMqttPublish \/ SetupMqttSubscribe
  \/ LoopCheck
  \/ ReconnectWhile \/ ReconnectConnect \/ ReconnectPublish \/ ReconnectSubscribe
  \/ ReconnectDelay
  \/ Button \/ ButtonPublish1 \/ ButtonConnect \/ ButtonDelay \/ ButtonPublish2
  \/ Poll

Next == Sketch \/ Env

Spec == Init /\ [][Next]_vars

\* the processor never stops running the sketch
LiveSpec == Init /\ [][Next]_vars /\ WF_vars(Sketch)

TypeOK ==
  /\ pc \in {"setup", "wifi_begin", "wifi_wait", "wifi_delay", "mqtt_connect", "mqtt_setcb",
             "mqtt_publish", "mqtt_subscribe", "loop_check", "poll"} \cup RcPcs \cup BtnPcs
  /\ link \in {"Disconnected", "Connecting", "Connected"}
  /\ broker \in BOOLEAN
  /\ session \in {"Disconnected", "Active"}
  /\ subscribed \in BOOLEAN
  /\ callbackSet \in BOOLEAN
  /\ led \in {"LOW", "HIGH"}
  /\ edge \in Edges
  /\ pub1 \in {"none", "ok", "inactive", "lost"}
  /\ pub2 \in {"none", "ok", "inactive", "lost"}
  /\ bpTries \in 0..MaxTries
  /\ bpSent \in 0..MaxTries
  /\ connectedPubs \in 0..MaxPubCount
  /\ initConn \in {"pending", "ok", "fail"}
  /\ estBy \in {"none", "initial", "reconnect", "inline"}
  /\ annc \in {"none", "connected", "reconnected"}
  /\ dropInTick \in BOOLEAN
  /\ prevDrop \in BOOLEAN
  /\ out \in {"none", "connected", "reconnected", "Button pressed!"}
  /\ rx \in [got : BOOLEAN, payload : Payloads]
  /\ oob \in BOOLEAN
  /\ fails \in 0..MaxFails
  /\ pressed \in BOOLEAN
  /\ lastTry \in {"none", "ok", "fail", "nolink"}
  /\ waited \in BOOLEAN

\* ---- claims --------------------------------------------------------------
\* C1: a Rising edge causes one or two publish attempts of "Button pressed!"
\* in its tick; the second attempt is made exactly when the first failed; and
\* when the first fails and the retry succeeds exactly one is delivered.
C1_RisingPublishes ==
  (pc \in {"poll", "loop_check"} /\ edge = "Rising") =>
     /\ bpTries \in {1, 2}
     /\ pub1 # "none"
     /\ (bpTries = 2) <=> (pub1 # "ok")
     /\ (pub2 # "none") <=> (pub1 # "ok")
     /\ (pub1 # "ok" /\ pub2 = "ok") => bpSent = 1

\* the session was Active when the first attempt was made, the attempt failed
\* on the lost link, and the retry got through
C1_Witness ==
  pc = "poll" /\ edge = "Rising" /\ pub1 = "lost" /\ pub2 = "ok" /\ bpTries = 2 /\ bpSent = 1

\* C2: after the callback ran on a payload with a first byte, the LED is on
\* (LOW) if that byte is '1' and off (HIGH) otherwise, whatever the rest of
\* the payload and the level before.
C2_FirstByteDecides ==
  (pc = "loop_check" /\ rx.got /\ Len(rx.payload) >= 1) =>
     led = (IF rx.payload[1] = "1" THEN "LOW" ELSE "HIGH")

\* a two-byte payload whose second byte is '1' and whose first is not
C2_Witness ==
  /\ pc = "loop_check" /\ rx.got /\ Len(rx.payload) = 2
  /\ rx.payload[1] = "x" /\ rx.payload[2] = "1" /\ led = "HIGH"

\* C3: a zero-length payload sets the actuator inactive and the callback
\* reads no payload byte at an index that is not below the length.
C3_EmptyPayloadGuarded ==
  (pc = "loop_check" /\ rx.got /\ rx.payload = <<>>) => (led = "HIGH" /\ ~oob)

\* C4: under LiveSpec, if from some point on the link and the broker stay
\* reachable, every tick that starts with the session not Active leads to
\* reconnect() returning with the session Active.
C4_RecoveryLive ==
  (<>[](wifi /\ broker)) =>
     ((pc = "loop_check" /\ session # "Active")
        ~> (pc = "button" /\ session = "Active" /\ estBy = "reconnect"))

\* reconnect() has returned after two or more failed attempts
C4_Witness ==
  pc = "button" /\ session = "Active" /\ estBy = "reconnect" /\ fails >= 2

InReconnectStep ==
  pc \in RcPcs =>
    /\ pc' \in RcPcs \/ (pc' = "button" /\ session' = "Active")
    /\ led' = led
    /\ btnVars' = btnVars
    /\ cbVars' = cbVars

\* C5: a step that leaves reconnect() lands in button() with the session
\* Active, and no step taken inside reconnect() touches the LED, the button
\* state, the edge handling or the inbound dispatch.
C5_ReconnectExitsOnlyOnSuccess == [][InReconnectStep]_vars

\* reconnect() has just returned after a failed and a successful attempt
C5_Witness ==
  pc = "button" /\ estBy = "reconnect" /\ fails >= 1 /\ session = "Active" /\ out = "none"

\* C6: when the session dropped during the previous tick, the edge handling
\* of this tick starts only after reconnect() has established the session,
\* published "reconnected" and subscribed.
C6_DropThenReconnect ==
  (pc = "button" /\ prevDrop) =>
     (estBy = "reconnect" /\ annc = "reconnected" /\ subscribed)

\* C7: "connected" is published at most once, exactly once after a successful
\* initial connect, and never before or without one.
C7_ConnectedOnce ==
  /\ connectedPubs <= 1
  /\ initConn \in {"pending", "fail"} => connectedPubs = 0
  /\ (initConn = "ok" /\ pc \notin {"mqtt_setcb", "mqtt_publish"}) => connectedPubs = 1

\* the session of setup_mqtt() was lost and reconnect() has set up another
C7_Witness ==
  initConn = "ok" /\ connectedPubs = 1 /\ estBy = "reconnect" /\ annc = "reconnected"

\* C8: between ticks and at the tick's steps, the session last established was
\* announced: "connected" for the initial one, "reconnected" for every later.
C8_EveryEstablishmentAnnounced ==
  (pc \in {"loop_check", "button", "poll"} /\ estBy # "none") =>
     annc = (IF estBy = "initial" THEN "connected" ELSE "reconnected")

\* the steps of the sketch that call client.publish
PublishCall == SetupMqttPublish \/ ReconnectPublish \/ ButtonPublish1 \/ ButtonPublish2

InactivePublishStep ==
  (PublishCall /\ session # "Active") =>
    /\ out' = "none"
    /\ bpSent' = bpSent
    /\ session' = session
    /\ link' = link
    /\ broker' = broker
    /\ subscribed' = subscribed
    /\ callbackSet' = callbackSet
    /\ led' = led
    /\ pc = "btn_pub1" => (pub1' = "inactive" /\ pc' = "btn_connect")
    /\ pc = "btn_pub2" => pub2' = "inactive"

\* C9: a publish call made while the session is not Active delivers nothing,
\* reports failure, and leaves the session, the link, the subscription and
\* the LED as they were.
C9_InactivePublishNoEffect == [][InactivePublishStep]_vars

\* the first "Button pressed!" attempt was made on a session that was not
\* Active, while link and broker were there
C9_Witness ==
  pc = "btn_connect" /\ pub1 = "inactive" /\ wifi /\ broker

\* C10 as stated: the session is Active only while the link is Connected.
C10_ActiveImpliesLinked == session = "Active" => wifi

SessionChangeStep ==
  /\ (session # "Active" /\ session' = "Active") => (wifi /\ wifi')
  /\ (session = "Active" /\ session' # "Active") => ~(wifi /\ broker)

\* C10 amended: a step that turns the session Active is taken with the link
\* Connected, and a session that stops being Active does so with the link or
\* the broker gone.
C10_ActiveOnlyOverLink == [][SessionChangeStep]_vars

\* the link went away under a session that is still reported Active
C10_Witness ==
  session = "Active" /\ ~wifi /\ estBy = "reconnect"

\* the callback runs only inside the poll step; a tick ends only through
\* poll, which follows button() and is the tick's last step; poll publishes
\* nothing
SerializedStep ==
  /\ (rx' # rx /\ rx'.got) => (pc = "poll" /\ pc' = "loop_check")
  /\ (pc' = "loop_check" /\ pc # "loop_check") => pc \in {"poll", "mqtt_connect", "mqtt_subscribe"}
  /\ (pc = "poll" /\ pc' # "poll") => pc' = "loop_check"
  /\ (pc' = "poll" /\ pc # "poll") => pc \in BtnPcs
  /\ pc = "poll" => (bpTries' = bpTries /\ pub1' = pub1 /\ pub2' = pub2 /\ out' \in {out, "none"})

\* when poll is reached every publish of the tick's edge handling has returned
PublishesDoneAtPoll ==
  (pc = "poll" /\ edge = "Rising") => (pub1 # "none" /\ (pub1 # "ok" => pub2 # "none"))

\* C11: inbound dispatch happens only in poll, poll runs exactly once per tick
\* as its last step, and the tick's publish attempts (the retry included) are
\* over before poll dispatches.
C11_TickSerializes == [](PublishesDoneAtPoll) /\ [][SerializedStep]_vars

\* a tick that published "Button pressed!" and then dispatched an inbound message
C11_Witness ==
  pc = "loop_check" /\ rx.got /\ edge = "Rising" /\ pub1 = "ok" /\ bpSent = 1

\* C12 as stated: reconnect() attempts the session connect only while the
\* link is Connected.
C12_AttemptOnlyWhenLinked == lastTry # "nolink"

\* C12 amended: reconnect() does not look at the link; an attempt made while
\* the link is not Connected fails and is followed by the delay, and only an
\* attempt made over a Connected link leaves the session established.
C12_NoLinkAttemptFails ==
  /\ lastTry = "nolink" =>
       /\ session # "Active"
       /\ (pc = "rc_delay" /\ ~waited) \/ (pc \in {"rc_while", "rc_connect"} /\ waited)
  /\ (pc \in {"rc_publish", "rc_subscribe"}) => (lastTry = "ok" /\ estBy = "reconnect")

\* an attempt was made without the link, the delay has elapsed and the next
\* attempt is about to be made
C12_Witness ==
  lastTry = "nolink" /\ pc = "rc_connect" /\ waited /\ fails >= 1

\* C13 as stated: before every connect attempt of reconnect() but the first,
\* the backoff delay has elapsed since the attempt before it.
C13_AttemptsSeparatedByBackoff ==
  (pc = "rc_connect" /\ lastTry # "none") => waited

\* C13 amended: the delay follows every failed attempt and no successful one,
\* so the next attempt is preceded by the delay exactly when the attempt
\* before it failed.
C13_BackoffAfterFailureOnly ==
  /\ (pc = "rc_connect" /\ lastTry # "none") => (waited <=> lastTry \in {"fail", "nolink"})
  /\ pc = "rc_delay" => (lastTry \in {"fail", "nolink"} /\ ~waited)
  /\ pc \in {"rc_publish", "rc_subscribe"} => (lastTry = "ok" /\ ~waited)

\* the session of a successful attempt was lost before the loop test: the next
\* attempt is made without a delay
C13_Witness ==
  pc = "rc_connect" /\ lastTry = "ok" /\ ~waited /\ session = "Disconnected"

\* the inline recovery is connect, delay, retry, in this order and once, and
\* "Button pressed!" is attempted only by the two publish steps of a tick that
\* took a Rising edge
InlineRecoveryStep ==
  /\ (pc' = "btn_connect" /\ pc # "btn_connect") => (pc = "btn_pub1" /\ pub1' \in {"lost", "inactive"})
  /\ pc = "btn_connect" => pc' \in {"btn_connect", "btn_delay"}
  /\ pc = "btn_delay" => pc' \in {"btn_delay", "btn_pub2"}
  /\ pc = "btn_pub2" => pc' \in {"btn_pub2", "poll"}
  /\ bpTries' > bpTries => (pc \in {"btn_pub1", "btn_pub2"} /\ edge = "Rising")

\* at most two attempts per tick, none without a Rising edge in that tick, and
\* poll is reached after a failed first attempt only with the one retry made
InlineRecoveryBounded ==
  /\ bpTries <= 2
  /\ bpTries > 0 => edge = "Rising"
  /\ (pc \in {"poll", "loop_check"} /\ pub1 \in {"lost", "inactive"}) =>
        (pub2 # "none" /\ bpTries = 2)

\* C14: the inline recovery is one connect, one short wait and one retry, in
\* that order; button() then ends and the tick goes on to poll, also when the
\* retry failed; the event is not attempted again in this or a later tick.
C14_InlineRecoveryOnce == [](InlineRecoveryBounded) /\ [][InlineRecoveryStep]_vars

\* the retry failed too and the tick has moved on to poll
C14_Witness ==
  pc = "poll" /\ edge = "Rising" /\ pub1 = "lost" /\ pub2 \in {"lost", "inactive"} /\ bpSent = 0

\* button() is entered only from the connected() test of loop() or of
\* reconnect() seeing the session Active, and the debouncer is consulted
\* only there
EdgeServiceStep ==
  /\ (pc' = "button" /\ pc # "button") => (pc \in {"loop_check", "rc_while"} /\ session = "Active")
  /\ (pressed' # pressed \/ (edge' # edge /\ edge' # "None")) => pc = "button"
  /\ (pc \in RcPcs \/ pc = "loop_check") => (pressed' = pressed /\ led' = led)

\* C15: the Input Monitor is queried, and an edge handled, only after step 1
\* of the same tick ended with the session observed Active, never inside
\* reconnect() or one of its waits.
C15_EdgesOnlyAfterActive == [][EdgeServiceStep]_vars

\* an edge is being handled in a tick whose step 1 went through reconnect()
C15_Witness ==
  pc = "btn_pub1" /\ edge = "Rising" /\ estBy = "reconnect" /\ fails >= 1

\* what button() does on a Falling edge and on no edge
QuietEdgeStep ==
  (pc = "button" /\ pc' # "button" /\ edge' # "Rising") =>
    /\ pc' = "poll"
    /\ led' = (IF edge' = "Falling" THEN "HIGH" ELSE led)
    /\ session' = session
    /\ subscribed' = subscribed
    /\ estBy' = estBy
    /\ out' = "none"
    /\ bpTries' = bpTries

\* a tick without a Rising edge reaches poll with no publish attempted
QuietEdgeNoPublish ==
  (pc \in {"poll", "loop_check"} /\ edge # "Rising") =>
     (bpTries = 0 /\ bpSent = 0 /\ pub1 = "none" /\ pub2 = "none")

\* C16: a Falling edge sets the LED off and publishes and connects nothing; no
\* edge leaves the LED as it is and publishes nothing; in both cases step 2
\* leaves the session and the subscription unchanged.
C16_FallingAndNoEdge == [](QuietEdgeNoPublish) /\ [][QuietEdgeStep]_vars

\* no edge in this tick, and the LED is still on
C16_Witness ==
  pc = "poll" /\ edge = "None" /\ led = "LOW" /\ pressed /\ bpTries = 0

\* C17: after a failed initial connect, and until reconnect() establishes a
\* session, the session is Disconnected, nothing was published or subscribed,
\* setup_mqtt() is over, and the control flow is at the start of the first
\* tick or inside reconnect(), with no edge handled.
C17_InitialConnectFailure ==
  /\ initConn = "fail" => connectedPubs = 0
  /\ (initConn = "fail" /\ estBy = "none") =>
       /\ session = "Disconnected"
       /\ ~subscribed
       /\ annc = "none"
       /\ out = "none"
       /\ pc \in {"loop_check", "rc_while", "rc_connect", "rc_delay"}
       /\ edge = "None"
       /\ bpTries = 0

\* the initial connect failed and the first tick is retrying inside reconnect()
C17_Witness ==
  initConn = "fail" /\ estBy = "none" /\ pc = "rc_delay" /\ fails >= 1

\* C18: at the poll step of a tick, an Active session holds the subscription
\* to the inbound topic.
C18_SubscribedAtPoll ==
  (pc = "poll" /\ session = "Active") => subscribed

\* C19: whenever the session is Active (setup_mqtt's own step between connect
\* and setCallback aside), the inbound-message callback is registered.
C19_CallbackRegistered ==
  (session = "Active" /\ pc # "mqtt_setcb") => callbackSet

====
